---- MODULE Spec2Model ----
(***************************************************************************)
(* Model of text-position's generic range type, TextRange<P> (src/range.rs) *)
(* and of its algebra: construction, end points, containment, join, meet,   *)
(* conversion from and to a half-open interval, and the diagnostic display. *)
(*                                                                          *)
(* A range is the record [index |-> p, len |-> q] of two positions of one   *)
(* representation P.  The generic parameter P of the source is the first    *)
(* parameter of every operator that needs the position's arithmetic.        *)
(*                                                                          *)
(* The position types themselves (Utf8Index, Utf8Position, Utf16Position,   *)
(* CompositePosition) live in modules of the crate other than range.rs;     *)
(* their zero, order, addition and saturating subtraction are modelled from *)
(* the capability contract of the specification (section 4.1).  All values  *)
(* are u32 in the crate; every bound below keeps each sum far below 2^32,   *)
(* so no addition of the model reaches the width of the type.               *)
(***************************************************************************)
EXTENDS Integers, Sequences, FiniteSets, TLC

VARIABLES repr, a, b, s, e, op, out

vars == <<repr, a, b, s, e, op, out>>

(***************************************************************************)
(* Bounds of the model.                                                     *)
(***************************************************************************)
MaxIndex == 9
MaxLen == 4
MaxRow == 1
MaxColumn == 12
MaxReach == 6
MaxComposite == 3

(***************************************************************************)
(* Position capability (specification, section 4.1).                        *)
(***************************************************************************)
RowColumn == {"Utf8Position", "Utf16Position"}

\* P::ZERO: the start of the text.
PosZERO(P) ==
    CASE P = "Utf8Index" -> 0
      [] P \in RowColumn -> [row |-> 0, column |-> 0]
      [] P = "CompositePosition" ->
            [index |-> 0, row |-> 0, column8 |-> 0, column16 |-> 0]

\* p <= q, the total order among positions of one representation.
PosLe(P, p, q) ==
    CASE P = "Utf8Index" -> p <= q
      [] P \in RowColumn ->
            \/ p.row < q.row
            \/ p.row = q.row /\ p.column <= q.column

\* p + q: the position q (taken as a length) after p.  A row/column length
\* that spans no row advances the column; one that spans rows advances the
\* row and ends in its own column.
PosAdd(P, p, q) ==
    CASE P = "Utf8Index" -> p + q
      [] P \in RowColumn ->
            IF q.row = 0
            THEN [row |-> p.row, column |-> p.column + q.column]
            ELSE [row |-> p.row + q.row, column |-> q.column]
      [] P = "CompositePosition" ->
            IF q.row = 0
            THEN [index |-> p.index + q.index, row |-> p.row,
                  column8 |-> p.column8 + q.column8,
                  column16 |-> p.column16 + q.column16]
            ELSE [index |-> p.index + q.index, row |-> p.row + q.row,
                  column8 |-> q.column8, column16 |-> q.column16]

\* p.saturating_sub(q): the length from q to p, clamped to zero when q
\* exceeds p.
PosSatSub(P, p, q) ==
    CASE P = "Utf8Index" -> IF p >= q THEN p - q ELSE 0
      [] P \in RowColumn ->
            IF p.row < q.row THEN [row |-> 0, column |-> 0]
            ELSE IF p.row = q.row
            THEN [row |-> 0,
                  column |-> IF p.column >= q.column
                             THEN p.column - q.column ELSE 0]
            ELSE [row |-> p.row - q.row, column |-> p.column]

\* Ord::min and Ord::max of two positions.
PosMin(P, p, q) == IF PosLe(P, p, q) THEN p ELSE q
PosMax(P, p, q) == IF PosLe(P, p, q) THEN q ELSE p

(***************************************************************************)
(* TextRange<P> (src/range.rs).                                             *)
(***************************************************************************)
ZERO(P) == [index |-> PosZERO(P), len |-> PosZERO(P)]

at(index, len) == [index |-> index, len |-> len]

empty(P, index) == [index |-> index, len |-> PosZERO(P)]

up_to(P, len) == [index |-> PosZERO(P), len |-> len]

start(r) == r.index

end(P, r) == PosAdd(P, r.index, r.len)

\* Faulty variant: to_start anchored at the start, as its name reads.
to_start_at_start(P, r) == empty(P, start(r))
\* to_start: the empty range at self.end(), as the source has it.
to_start(P, r) == empty(P, end(P, r))

to_end(P, r) == empty(P, end(P, r))

\* Faulty variant: the end of the range is excluded.
contains_exclusive(P, r, pos) ==
    PosLe(P, r.index, pos) /\ PosLe(P, pos, end(P, r)) /\ pos # end(P, r)
contains_inclusive(P, r, pos) ==
    PosLe(P, r.index, pos) /\ PosLe(P, pos, end(P, r))

covers(P, r, other) ==
    PosLe(P, start(r), start(other)) /\ PosLe(P, end(P, other), end(P, r))

is_empty(P, r) == r.len = PosZERO(P)

\* impl From<Range<P>> for TextRange<P>; the interval is [lo, hi).
\* Faulty variant: the operands of the subtraction are exchanged.
FromSwapped(P, lo, hi) == [index |-> lo, len |-> PosSatSub(P, lo, hi)]
From(P, lo, hi) == [index |-> lo, len |-> PosSatSub(P, hi, lo)]

\* impl From<TextRange<P>> for Range<P>
\* Faulty variant: the len is taken for the end.
IntoLen(P, r) == [start |-> r.index, end |-> r.len]
Into(P, r) == [start |-> r.index, end |-> PosAdd(P, r.index, r.len)]

\* Faulty variants: the end of the second operand is taken for the greater
\* end; the lens are added.
join_other_end(P, r, other) ==
    From(P, PosMin(P, start(r), start(other)), end(P, other))
join_sum(P, r, other) ==
    [index |-> PosMin(P, start(r), start(other)),
     len |-> PosAdd(P, r.len, other.len)]
join(P, r, other) ==
    From(P, PosMin(P, start(r), start(other)),
            PosMax(P, end(P, r), end(P, other)))

\* Faulty variants: the start of the first operand is taken for the greater
\* start; disjoint operands give the empty range at the start of the first.
meet_self_start(P, r, other) ==
    From(P, start(r), PosMin(P, end(P, r), end(P, other)))
meet_anchored(P, r, other) ==
    LET lo == PosMax(P, start(r), start(other))
        hi == PosMin(P, end(P, r), end(P, other))
    IN  IF PosLe(P, lo, hi) THEN From(P, lo, hi) ELSE empty(P, start(r))
meet(P, r, other) ==
    From(P, PosMax(P, start(r), start(other)),
            PosMin(P, end(P, r), end(P, other)))

\* fmt_gnu: rows and columns are stored from zero and displayed from one.
\* Faulty variant: the columns are displayed from zero.
fmt_gnu_zero_based(start_row, start_column, end_row, end_column) ==
    ToString(start_row + 1) \o "." \o ToString(start_column) \o "-"
        \o ToString(end_row + 1) \o "." \o ToString(end_column)
fmt_gnu(start_row, start_column, end_row, end_column) ==
    ToString(start_row + 1) \o "." \o ToString(start_column + 1) \o "-"
        \o ToString(end_row + 1) \o "." \o ToString(end_column + 1)

\* impl Display for TextRange<Utf8Index>, <Utf8Position>, <Utf16Position>
\* and <CompositePosition>.
Display(P, r) ==
    CASE P = "Utf8Index" ->
            ToString(start(r)) \o ".." \o ToString(end(P, r))
      [] P \in RowColumn ->
            fmt_gnu(start(r).row, start(r).column,
                    end(P, r).row, end(P, r).column)
      [] P = "CompositePosition" ->
            fmt_gnu(start(r).row, start(r).column8,
                    end(P, r).row, end(P, r).column8)

\* impl Debug for TextRange<P>: the display of the range.
Debug(P, r) == Display(P, r)

(***************************************************************************)
(* Ranges over byte offsets: every at(index, len) within the bounds.        *)
(***************************************************************************)
ByteRanges == {at(i, l) : i \in 0..MaxIndex, l \in 0..MaxLen}

NoRange == ZERO("Utf8Index")

\* The algebra over byte offsets: two operands, and one call on them.
Init ==
    /\ repr = "Utf8Index"
    /\ a \in ByteRanges
    /\ b \in ByteRanges
    /\ s = 0
    /\ e = 0
    /\ op = "init"
    /\ out = NoRange

CallJoin ==
    /\ op = "init"
    /\ op' = "join"
    /\ out' = join(repr, a, b)
    /\ UNCHANGED <<repr, a, b, s, e>>

CallMeet ==
    /\ op = "init"
    /\ op' = "meet"
    /\ out' = meet(repr, a, b)
    /\ UNCHANGED <<repr, a, b, s, e>>

\* (a join b) join c and a join (b join c), for a third range c.
CallJoin3 ==
    \E c \in ByteRanges :
        /\ op = "init"
        /\ op' = "join3"
        /\ out' = [c |-> c,
                   left |-> join(repr, join(repr, a, b), c),
                   right |-> join(repr, a, join(repr, b, c))]
        /\ UNCHANGED <<repr, a, b, s, e>>

CallToStart ==
    /\ op = "init"
    /\ op' = "to_start"
    /\ out' = to_start(repr, a)
    /\ UNCHANGED <<repr, a, b, s, e>>

CallToEnd ==
    /\ op = "init"
    /\ op' = "to_end"
    /\ out' = to_end(repr, a)
    /\ UNCHANGED <<repr, a, b, s, e>>

Next == CallJoin \/ CallMeet \/ CallJoin3 \/ CallToStart \/ CallToEnd

Spec == Init /\ [][Next]_vars

(***************************************************************************)
(* Properties of the algebra over byte offsets, checked under Spec.         *)
(***************************************************************************)
Disjoint(P, r, other) ==
    \/ end(P, r) < start(other)
    \/ end(P, other) < start(r)

Overlapping(P, r, other) ==
    PosMax(P, start(r), start(other)) <= PosMin(P, end(P, r), end(P, other))

\* C1: the meet of two disjoint ranges over byte offsets is the empty range
\* whose index is the start of the first operand.
C1_MeetDisjointAtSelfStart ==
    (op = "meet" /\ Disjoint(repr, a, b)) =>
        /\ is_empty(repr, out)
        /\ out.index = start(a)

\* C2: the meet of two overlapping ranges over byte offsets starts at the
\* greater start, ends at the lesser end, and is covered by both operands.
C2_MeetOverlapping ==
    (op = "meet" /\ Overlapping(repr, a, b)) =>
        /\ start(out) = PosMax(repr, start(a), start(b))
        /\ end(repr, out) = PosMin(repr, end(repr, a), end(repr, b))
        /\ covers(repr, a, out)
        /\ covers(repr, b, out)

C2_Witness ==
    /\ op = "meet"
    /\ a = at(2, 4)
    /\ b = at(4, 4)
    /\ Overlapping(repr, a, b)
    /\ out = at(4, 2)

C4_JoinMinMax ==
    op = "join" =>
        /\ start(out) = PosMin(repr, start(a), start(b))
        /\ end(repr, out) = PosMax(repr, end(repr, a), end(repr, b))
        /\ covers(repr, out, a)
        /\ covers(repr, out, b)

C4_Witness ==
    /\ op = "join"
    /\ a = at(2, 2)
    /\ b = at(6, 2)
    /\ Disjoint(repr, a, b)
    /\ out = at(2, 6)

\* C5: join over byte offsets is commutative, associative and idempotent.
C5_JoinLattice ==
    /\ op = "join" => out = join(repr, b, a)
    /\ (op = "join" /\ a = b) => out = a
    /\ op = "join3" => out.left = out.right

C5_Witness ==
    /\ op = "join3"
    /\ a = at(4, 1)
    /\ b = at(0, 2)
    /\ out.c = at(8, 3)
    /\ out.left = at(0, 11)
    /\ out.right = at(0, 11)

RowColumnPositions ==
    {[row |-> r, column |-> c] : r \in 0..MaxRow, c \in 0..MaxColumn}

Positions(P) ==
    IF P = "Utf8Index" THEN 0..MaxIndex ELSE RowColumnPositions

InitConv ==
    /\ repr \in {"Utf8Index"} \cup RowColumn
    /\ s \in Positions(repr)
    /\ e \in Positions(repr)
    /\ a = ZERO(repr)
    /\ b = ZERO(repr)
    /\ op = "init"
    /\ out = [start |-> PosZERO(repr), end |-> PosZERO(repr)]

\* let a = TextRange::from(s..e)
ConvFrom ==
    /\ op = "init"
    /\ op' = "from"
    /\ a' = From(repr, s, e)
    /\ UNCHANGED <<repr, b, s, e, out>>

\* let out = Range::from(a)
ConvInto ==
    /\ op = "from"
    /\ op' = "into"
    /\ out' = Into(repr, a)
    /\ UNCHANGED <<repr, a, b, s, e>>

NextConv == ConvFrom \/ ConvInto

SpecConv == InitConv /\ [][NextConv]_vars

\* C6: an interval [s, e) with s <= e converted to a range and back is the
\* interval itself: its start is s and its end is e.
C6_RoundTrip ==
    (op = "into" /\ PosLe(repr, s, e)) =>
        /\ out.start = s
        /\ out.end = e

C6_Witness ==
    /\ op = "into"
    /\ repr = "Utf8Position"
    /\ s = [row |-> 0, column |-> 7]
    /\ e = [row |-> 1, column |-> 3]
    /\ a.len = [row |-> 1, column |-> 3]
    /\ out = [start |-> s, end |-> e]

\* C7: a malformed interval [s, e) with e < s converts to the empty range at
\* s: its index is s, its len is zero, and its end is s.
C7_MalformedInterval ==
    (op \in {"from", "into"} /\ ~PosLe(repr, s, e)) =>
        /\ a.index = s
        /\ a.len = PosZERO(repr)
        /\ is_empty(repr, a)
        /\ end(repr, a) = s

C7_Witness ==
    /\ op = "from"
    /\ repr = "Utf8Index"
    /\ s = 5
    /\ e = 2
    /\ a = at(5, 0)

(***************************************************************************)
(* The ranges over byte offsets that the constructors and the operations    *)
(* reach from ZERO: two registers, each operation stores its result in one. *)
(***************************************************************************)
InitValid ==
    /\ repr = "Utf8Index"
    /\ a = ZERO(repr)
    /\ b = ZERO(repr)
    /\ s = 0
    /\ e = 0
    /\ op = "init"
    /\ out = NoRange

Store(d, r, name) ==
    /\ op' = name
    /\ a' = IF d = "a" THEN r ELSE a
    /\ b' = IF d = "b" THEN r ELSE b
    /\ UNCHANGED <<repr, s, e, out>>

NewZero ==
    \E d \in {"a", "b"} : Store(d, ZERO(repr), "ZERO")

NewEmpty ==
    \E d \in {"a", "b"}, index \in 0..MaxReach :
        Store(d, empty(repr, index), "empty")

NewUpTo ==
    \E d \in {"a", "b"}, len \in 0..MaxReach :
        Store(d, up_to(repr, len), "up_to")

NewFrom ==
    \E d \in {"a", "b"}, lo \in 0..MaxReach, hi \in 0..MaxReach :
        Store(d, From(repr, lo, hi),
              IF hi < lo THEN "from_malformed" ELSE "from")

DoJoin ==
    \E d \in {"a", "b"}, x \in {a, b}, y \in {a, b} :
        Store(d, join(repr, x, y), "join")

DoMeet ==
    \E d \in {"a", "b"}, x \in {a, b}, y \in {a, b} :
        Store(d, meet(repr, x, y), "meet")

DoToStart ==
    \E d \in {"a", "b"}, x \in {a, b} :
        Store(d, to_start(repr, x), "to_start")

DoToEnd ==
    \E d \in {"a", "b"}, x \in {a, b} :
        Store(d, to_end(repr, x), "to_end")

NextValid ==
    \/ NewZero
    \/ NewEmpty
    \/ NewUpTo
    \/ NewFrom
    \/ DoJoin
    \/ DoMeet
    \/ DoToStart
    \/ DoToEnd

SpecValid == InitValid /\ [][NextValid]_vars

Valid(P, r) ==
    /\ r.len >= 0
    /\ start(r) <= end(P, r)
    /\ contains_inclusive(P, r, start(r))
    /\ contains_inclusive(P, r, end(P, r))

\* C8: every range over byte offsets reached by ZERO, empty, up_to, the
\* conversion of an interval, join, meet, to_start and to_end has a len that
\* is not negative and a start that does not exceed its end, and contains
\* its start and its end inclusively.
C8_ReachableValid ==
    /\ Valid(repr, a)
    /\ Valid(repr, b)

C8_Witness ==
    /\ op = "from_malformed"
    /\ a = at(5, 0)
    /\ b = at(1, 3)

(***************************************************************************)
(* The display of one range, for each representation.                       *)
(***************************************************************************)
CompositePositions ==
    {p \in [index : 0..((MaxRow + 1) * (MaxComposite + 1)), row : 0..MaxRow,
            column8 : 0..MaxComposite, column16 : 0..MaxComposite] :
        /\ p.column16 <= p.column8
        /\ p.index = p.row * (MaxComposite + 1) + p.column8}

Ranges(P) ==
    CASE P = "Utf8Index" -> ByteRanges
      [] P \in RowColumn ->
            {at(i, l) : i \in RowColumnPositions, l \in RowColumnPositions}
      [] P = "CompositePosition" ->
            {at(i, l) : i \in CompositePositions, l \in CompositePositions}

InitFmt ==
    /\ repr \in {"Utf8Index", "CompositePosition"} \cup RowColumn
    /\ a \in Ranges(repr)
    /\ b = ZERO(repr)
    /\ s = PosZERO(repr)
    /\ e = PosZERO(repr)
    /\ op = "init"
    /\ out = ""

\* format!("{}", a)
CallDisplay ==
    /\ op = "init"
    /\ op' = "display"
    /\ out' = Display(repr, a)
    /\ UNCHANGED <<repr, a, b, s, e>>

\* format!("{:?}", a)
CallDebug ==
    /\ op = "init"
    /\ op' = "debug"
    /\ out' = Debug(repr, a)
    /\ UNCHANGED <<repr, a, b, s, e>>

NextFmt == CallDisplay \/ CallDebug

SpecFmt == InitFmt /\ [][NextFmt]_vars

Column(P, p) == IF P = "CompositePosition" THEN p.column8 ELSE p.column

\* C9: a range of row/column positions (UTF-8, UTF-16 or composite) displays
\* as "R1.C1-R2.C2", the rows and columns of its start and of its end
\* (index + len) counted from one, the composite by its UTF-8 column; the zero
\* range displays as "1.1-1.1" and the range from (0, 7) to (0, 12) as
\* "1.8-1.13".
C9_DisplayGnu ==
    (op \in {"display", "debug"} /\ repr # "Utf8Index") =>
        LET from == a.index
            to == PosAdd(repr, a.index, a.len)
        IN  /\ out = ToString(from.row + 1) \o "."
                        \o ToString(Column(repr, from) + 1) \o "-"
                        \o ToString(to.row + 1) \o "."
                        \o ToString(Column(repr, to) + 1)
            /\ a = ZERO(repr) => out = "1.1-1.1"
            /\ (/\ repr \in RowColumn
                /\ from = [row |-> 0, column |-> 7]
                /\ to = [row |-> 0, column |-> 12]) => out = "1.8-1.13"

C9_Witness ==
    /\ op = "display"
    /\ repr = "Utf8Position"
    /\ a = at([row |-> 0, column |-> 7], [row |-> 0, column |-> 5])
    /\ out = "1.8-1.13"

====
